---- MODULE Spec2Model ----
(***************************************************************************)
(* Route guards of the Scheduler front-end (src/App.jsx).                  *)
(*                                                                         *)
(* ProtectedRoute and PublicRoute are React function components.  Each     *)
(* mounted instance owns two useState cells (isAuthenticated, isLoading),  *)
(* starts one isAuthenticated() probe and registers one onAuthStateChanged *)
(* listener in its mount effect, and releases the listener in the effect's *)
(* cleanup.  App maps the location to a route element.                     *)
(*                                                                         *)
(* JavaScript runs handlers to completion: while a handler is between two  *)
(* of its statements (running.pc # "idle") no other action is enabled.     *)
(* The statements of a handler are separate steps so that the order of its *)
(* writes is visible.                                                      *)
(***************************************************************************)
EXTENDS Naturals, Sequences, FiniteSets

\* ---------------------------------------------------------------- bounds
NInst == 2          \* guard instance slots (one mounted, one torn down)
MaxQueue == 1       \* notifications in flight per listener

Inst == 1..NInst
NoInst == 0

\* ---------------------------------------------------------------- values
Identities == {"null", "u1"}           \* null or a signed-in user object
ProtectedPaths == {"/", "/onboarding", "/manager-dashboard", "/supervisor-dashboard"}
KnownPaths == {"/login"} \cup ProtectedPaths
UnknownPaths == {"/nope"}              \* stands for any location no route but "*" matches
Paths == KnownPaths \cup UnknownPaths

VARIABLES
  user,       \* the provider's current identity
  path,       \* the router's current location
  cur,        \* the instance mounted for the current location, or NoInst
  g,          \* g[i]: kind, mounted, isAuthenticated, isLoading of instance i
  probe,      \* probe[i], the checkAuth() call: "none" | "pending" | "settled" |
              \* "stale" (settled after its instance was unmounted)
  probeVal,   \* probe[i]'s outcome: "none" | "true" | "false" | "reject"
              \* (kept while the probe is in flight or its instance is mounted)
  handlers,   \* handlers[i]: listeners of instance i registered with the provider
  queue,      \* queue[i]: notifications emitted to instance i, not yet delivered
  running,    \* the handler that is between two statements
  lastEvent,  \* history: the last observation delivered to instance i while mounted
  lastNote,   \* history: the identity of the last notification delivered to it
  unhandled,  \* history: a probe rejection escaped checkAuth
  issued,     \* history: isAuthenticated() calls made by the activation in slot i
  probeWrites,\* history: times the probe of that activation wrote the auth flag
  chain,      \* history: the locations redirected to since the start (SpecNav)
  ha,         \* one call of handleAsync (SpecAsync)
  db          \* one debounced function and its timers (SpecDebounce)

vars == <<user, path, cur, g, probe, probeVal, handlers, queue, running,
          lastEvent, lastNote, unhandled, issued, probeWrites, chain, ha, db>>

\* The state of the utilities, which the guards and the router do not touch.
utils == <<ha, db>>

\* The state of the guards and the router, which the utilities do not touch.
guards == <<user, path, cur, g, probe, probeVal, handlers, queue, running,
            lastEvent, lastNote, unhandled, issued, probeWrites, chain>>

Idle == [inst |-> NoInst, pc |-> "idle"]

\* ------------------------------------------------------------ React, JS
\* !!v
NotNot(v) == IF v \in {"null", "false"} THEN "false" ELSE "true"

\* truthiness of the auth flag in a condition
Truthy(v) == v \notin {"null", "false"}

\* The dispatchers returned by React.useState: an update of an instance that
\* has been unmounted is dropped by React.
SetIsAuthenticated(gi, v) ==
  IF gi.mounted THEN [gi EXCEPT !.isAuthenticated = v] ELSE gi

\* (variant: the update is applied whether or not the instance is mounted)
SetIsLoadingUnchecked(gi, v) == [gi EXCEPT !.isLoading = v]

SetIsLoading(gi, v) ==
  IF gi.mounted THEN [gi EXCEPT !.isLoading = v] ELSE gi

\* The slot of an unmounted instance: React has released its state cells.
Released(k) == [kind |-> k, mounted |-> FALSE, isAuthenticated |-> "null", isLoading |-> TRUE]

\* A slot no instance has used yet.
Free == [kind |-> "none", mounted |-> FALSE, isAuthenticated |-> "null", isLoading |-> TRUE]

\* ------------------------------------------------- identity provider
\* firebase.auth (./api/firebaseClient) as the interface the guards use.

\* isAuthenticated(): a promise of a boolean taken from the identity at the
\* time of the call, or a rejection.
ProviderIsAuthenticated(u) == {NotNot(u), "reject"}

\* onAuthStateChanged(cb) registers cb; the function it returns removes it.
ProviderSubscribe(h, i) == [h EXCEPT ![i] = @ + 1]

ProviderUnsubscribe(h, i) == [h EXCEPT ![i] = IF @ > 0 THEN @ - 1 ELSE 0]

\* ------------------------------------------------------ ProtectedRoute
\* (variant: useState(false) for isLoading)
ProtectedRouteStateLoaded ==
  [kind |-> "Protected", mounted |-> TRUE, isAuthenticated |-> "null", isLoading |-> FALSE]

ProtectedRouteState == 
  [kind |-> "Protected", mounted |-> TRUE, isAuthenticated |-> "null", isLoading |-> TRUE]

\* (variant: no finally clause)
ProtectedCheckAuthNoFinally(gi) == gi

\* (variant: no catch clause, the rejection leaves checkAuth)
ProtectedCheckAuthNoCatch(gi, outcome) ==
  IF outcome = "reject"
    THEN [g |-> gi, threw |-> TRUE]
    ELSE [g |-> SetIsAuthenticated(gi, outcome), threw |-> FALSE]

\* try { setIsAuthenticated(await ...) } catch { setIsAuthenticated(false) }
ProtectedCheckAuth(gi, outcome) ==
  IF outcome = "reject"
    THEN [g |-> SetIsAuthenticated(gi, "false"), threw |-> FALSE]
    ELSE [g |-> SetIsAuthenticated(gi, outcome), threw |-> FALSE]

\* finally { setIsLoading(false) }
ProtectedCheckAuthFinally(gi) == SetIsLoading(gi, FALSE)

\* (variant: the listener clears the loading flag before it sets the auth flag)
ProtectedListenerLoadingFirst(gi, u) == SetIsLoading(gi, FALSE)

\* (variant: the listener only resolves the initial state)
ProtectedListenerOnce(gi, u) ==
  IF gi.isLoading THEN SetIsAuthenticated(gi, NotNot(u)) ELSE gi

\* the listener: setIsAuthenticated(!!user); then setIsLoading(false)
ProtectedListener(gi, u) == SetIsAuthenticated(gi, NotNot(u))

ProtectedListenerLoading(gi) == SetIsLoading(gi, FALSE)

\* (variant: the effect depends on the auth flag)
ProtectedEffectDepsAuth(gi) == <<gi.isAuthenticated>>

\* the dependency list of the effect: [] (run on mount only)
ProtectedEffectDeps(gi) == <<>>

\* the mount effect registers the listener; its cleanup calls unsubscribe()
ProtectedEffect(h, i) == ProviderSubscribe(h, i)

\* (variant: the cleanup does not call unsubscribe)
ProtectedCleanupLeak(h, i) == h

ProtectedCleanup(h, i) == ProviderUnsubscribe(h, i)

\* (variant: no check of the auth flag)
ProtectedRouteNoRedirect(gi) ==
  IF gi.isLoading THEN "pending" ELSE "children"

\* the render function
ProtectedRoute(gi) ==
  IF gi.isLoading THEN "pending"
  ELSE IF ~Truthy(gi.isAuthenticated) THEN "redirect /login"
  ELSE "children"

\* --------------------------------------------------------- PublicRoute
\* (variant: the instance starts resolved, as signed out)
PublicRouteStateResolved ==
  [kind |-> "Public", mounted |-> TRUE, isAuthenticated |-> "false", isLoading |-> FALSE]

PublicRouteState == 
  [kind |-> "Public", mounted |-> TRUE, isAuthenticated |-> "null", isLoading |-> TRUE]

\* (variant: the catch clause logs the error and writes nothing)
PublicCheckAuthSilentCatch(gi, outcome) ==
  IF outcome = "reject"
    THEN [g |-> gi, threw |-> FALSE]
    ELSE [g |-> SetIsAuthenticated(gi, outcome), threw |-> FALSE]

PublicCheckAuth(gi, outcome) ==
  IF outcome = "reject"
    THEN [g |-> SetIsAuthenticated(gi, "false"), threw |-> FALSE]
    ELSE [g |-> SetIsAuthenticated(gi, outcome), threw |-> FALSE]

\* (variant: the finally clause flips the loading flag)
PublicCheckAuthFinallyToggle(gi) == SetIsLoading(gi, ~gi.isLoading)

PublicCheckAuthFinally(gi) == SetIsLoading(gi, FALSE)

\* (variant: the listener only resolves the initial state)
PublicListenerOnce(gi, u) ==
  IF gi.isLoading THEN SetIsAuthenticated(gi, NotNot(u)) ELSE gi

PublicListener(gi, u) == SetIsAuthenticated(gi, NotNot(u))

\* (variant: the listener does not clear the loading flag)
PublicListenerLoadingSkipped(gi) == gi

PublicListenerLoading(gi) == SetIsLoading(gi, FALSE)

PublicEffectDeps(gi) == <<>>

PublicEffect(h, i) == ProviderSubscribe(h, i)

PublicCleanup(h, i) == ProviderUnsubscribe(h, i)

\* (variant: no check of the auth flag)
PublicRouteNoRedirect(gi) ==
  IF gi.isLoading THEN "pending" ELSE "children"

\* (variant: a resolved PublicRoute redirects to / whatever the auth flag is)
PublicRouteRedirectResolved(gi) ==
  IF gi.isLoading THEN "pending" ELSE "redirect /"

PublicRoute(gi) ==
  IF gi.isLoading THEN "pending"
  ELSE IF Truthy(gi.isAuthenticated) THEN "redirect /"
  ELSE "children"

\* ------------------------------------------------- dispatch on the kind
InitialState(k) == IF k = "Protected" THEN ProtectedRouteState ELSE PublicRouteState

CheckAuth(gi, outcome) ==
  IF gi.kind = "Protected" THEN ProtectedCheckAuth(gi, outcome) ELSE PublicCheckAuth(gi, outcome)

CheckAuthFinally(gi) ==
  IF gi.kind = "Protected" THEN ProtectedCheckAuthFinally(gi) ELSE PublicCheckAuthFinally(gi)

Listener(gi, u) ==
  IF gi.kind = "Protected" THEN ProtectedListener(gi, u) ELSE PublicListener(gi, u)

ListenerLoading(gi) ==
  IF gi.kind = "Protected" THEN ProtectedListenerLoading(gi) ELSE PublicListenerLoading(gi)

Effect(k, h, i) == IF k = "Protected" THEN ProtectedEffect(h, i) ELSE PublicEffect(h, i)

Cleanup(k, h, i) == IF k = "Protected" THEN ProtectedCleanup(h, i) ELSE PublicCleanup(h, i)

EffectDeps(gi) ==
  IF gi.kind = "Protected" THEN ProtectedEffectDeps(gi) ELSE PublicEffectDeps(gi)

\* React runs the effect of a mounted instance again after a render in
\* which its dependency list has changed: 1 if the change from gOld to gNew
\* makes the effect of the instance run again (one more isAuthenticated()
\* call), else 0.
Rerun(gOld, gNew) ==
  IF gOld.mounted /\ EffectDeps(gOld) # EffectDeps(gNew) THEN 1 ELSE 0

Output(gi) == IF gi.kind = "Protected" THEN ProtectedRoute(gi) ELSE PublicRoute(gi)

\* ----------------------------------------------------------------- App
\* (variant: the login route is wrapped in ProtectedRoute like the others)
RouteGuardAllProtected(p) ==
  IF p = "/login" \/ p \in ProtectedPaths THEN "Protected" ELSE "none"

\* The guard of the route element that matches location p ("none": the
\* catch-all route, whose element is a bare <Navigate to="/">).
RouteGuard(p) ==
  IF p = "/login" THEN "Public"
  ELSE IF p \in ProtectedPaths THEN "Protected"
  ELSE "none"

\* The page inside the guard of the route that matches location p.
RoutePage(p) ==
  IF p = "/login" THEN "Authentication"
  ELSE IF p = "/" THEN "Home"
  ELSE IF p = "/onboarding" THEN "Onboarding"
  ELSE IF p = "/manager-dashboard" THEN "ManagerDashboard"
  ELSE IF p = "/supervisor-dashboard" THEN "SupervisorDashboard"
  ELSE "none"

\* (variant: the catch-all route redirects to /login)
AppCatchAllLogin(p, c, G) ==
  IF RouteGuard(p) = "none" THEN "redirect /login" ELSE Output(G[c])

\* What <Routes> renders at location p when instance c is the mounted guard.
App(p, c, G) ==
  IF RouteGuard(p) = "none" THEN "redirect /" ELSE Output(G[c])

RedirectTarget(out) ==
  IF out = "redirect /login" THEN "/login" ELSE "/"

IsRedirect(out) == out \in {"redirect /login", "redirect /"}

\* ----------------------------------------------------------- utilities
\* What asyncFn resolves with, and what it rejects with or throws.
Values == {"v1", "v2"}
Errors == {"e1", "e2"}

\* How the promise of handleAsync has settled.
NoCompletion == [kind |-> "none", value |-> "none"]

\* handleAsync has not been called.  loading and error are the caller's
\* cells behind setLoading and setError; log lists the calls handleAsync has
\* made in the current call, completion is what the body is about to settle
\* with, result is how the last call settled, done lists the settlements of
\* all calls.
HaIdle == [pc |-> "idle", loading |-> FALSE, error |-> "null", outcome |-> "none",
           value |-> "none", log |-> <<>>, completion |-> NoCompletion,
           result |-> NoCompletion, done |-> <<>>]

Call(op, arg) == [op |-> op, arg |-> arg]

\* handleAsync(asyncFn, setLoading, setError) is called: the try block is
\* entered.
HandleAsyncEnter(h) ==
  [h EXCEPT !.pc = "setLoading", !.outcome = "none", !.value = "none", !.log = <<>>,
            !.completion = NoCompletion, !.result = NoCompletion]

\* setLoading(true)
HandleAsyncSetLoading(h) ==
  [h EXCEPT !.loading = TRUE, !.log = Append(@, Call("setLoading", "true")),
            !.pc = "setError"]

\* setError(null)
HandleAsyncSetError(h) ==
  [h EXCEPT !.error = "null", !.log = Append(@, Call("setError", "null")),
            !.pc = "asyncFn"]

\* asyncFn() is called.  It returns a promise that will resolve with v or
\* reject with v (handleAsync waits), or it throws v at once.
HandleAsyncInvoke(h, o, v) ==
  [h EXCEPT !.outcome = o, !.value = v, !.log = Append(@, Call("asyncFn", "")),
            !.pc = IF o = "throw" THEN "catch" ELSE "await"]

\* The awaited promise settles: const result = ...; return result, or the
\* rejection is thrown into the try block.
HandleAsyncResume(h) ==
  IF h.outcome = "resolve"
    THEN [h EXCEPT !.log = Append(@, Call("settled", "")),
                   !.completion = [kind |-> "return", value |-> h.value],
                   !.pc = "finally"]
    ELSE [h EXCEPT !.log = Append(@, Call("settled", "")), !.pc = "catch"]

\* (variant: the catch block rethrows without calling setError)
HandleAsyncCatchSilent(h) ==
  [h EXCEPT !.completion = [kind |-> "throw", value |-> h.value], !.pc = "finally"]

\* catch (error) { console.error(...); setError(error); throw error; }
HandleAsyncCatch(h) ==
  [h EXCEPT !.error = h.value, !.log = Append(@, Call("setError", h.value)),
            !.completion = [kind |-> "throw", value |-> h.value],
            !.pc = "finally"]

\* (variant: setLoading(false) is the last statement of the try block)
HandleAsyncNoFinally(h) ==
  IF h.completion.kind = "return"
    THEN [h EXCEPT !.loading = FALSE, !.log = Append(@, Call("setLoading", "false")),
                   !.result = h.completion, !.done = Append(@, h.completion),
                   !.pc = "idle"]
    ELSE [h EXCEPT !.result = h.completion, !.done = Append(@, h.completion),
                   !.pc = "idle"]

\* finally { setLoading(false); } and the promise of handleAsync settles.
HandleAsyncFinally(h) ==
  [h EXCEPT !.loading = FALSE, !.log = Append(@, Call("setLoading", "false")),
            !.result = h.completion, !.done = Append(@, h.completion),
            !.pc = "idle"]

\* The argument lists the debounced function is called with.
Args == {"a", "b"}

\* debounce has not been called.  timeout is the closure variable (0:
\* undefined), timers the pending timers of the host with their callbacks'
\* captured args, next the id the next setTimeout returns; calls lists the
\* args of the calls of the returned function, invoked the invocations of
\* func (args, and the number of calls made before), bursts counts the calls
\* that arrived while no timer was pending.
DbIdle == [made |-> FALSE, timeout |-> 0, timers |-> {}, next |-> 1,
           calls |-> <<>>, invoked |-> <<>>, bursts |-> 0]

\* clearTimeout(id): the pending timer with that id, if any, is cancelled.
ClearTimeout(timers, id) == {t \in timers : t.id # id}

\* debounce(func, wait): let timeout; return function executedFunction ...
Debounce(d) == [d EXCEPT !.made = TRUE, !.timeout = 0]

\* (variant: executedFunction starts a timer without cancelling the pending one)
ExecutedFunctionNoClear(d, args) ==
  [d EXCEPT !.timers = d.timers \cup {[id |-> d.next, args |-> args]},
            !.timeout = d.next,
            !.next = @ + 1,
            !.calls = Append(@, args),
            !.bursts = IF d.timers = {} THEN @ + 1 ELSE @]

\* executedFunction(...args): clearTimeout(timeout);
\* timeout = setTimeout(later, wait)
ExecutedFunction(d, args) ==
  [d EXCEPT !.timers = ClearTimeout(d.timers, d.timeout) \cup {[id |-> d.next, args |-> args]},
            !.timeout = d.next,
            !.next = @ + 1,
            !.calls = Append(@, args),
            !.bursts = IF d.timers = {} THEN @ + 1 ELSE @]

\* The host runs the callback of timer t:
\* later = () => { clearTimeout(timeout); func(...args); }
Later(d, t) ==
  [d EXCEPT !.timers = ClearTimeout(d.timers \ {t}, d.timeout),
            !.invoked = Append(@, [args |-> t.args, at |-> Len(d.calls)])]

\* ------------------------------------------------------------ actions
TypeOK ==
  /\ user \in Identities
  /\ path \in Paths
  /\ cur \in Inst \cup {NoInst}
  /\ g \in [Inst -> [kind : {"none", "Protected", "Public"}, mounted : BOOLEAN,
                     isAuthenticated : {"null", "true", "false"}, isLoading : BOOLEAN]]
  /\ probe \in [Inst -> {"none", "pending", "settled", "stale"}]
  /\ probeVal \in [Inst -> {"none", "true", "false", "reject"}]
  /\ handlers \in [Inst -> 0..1]
  /\ \A i \in Inst : queue[i] \in Seq(Identities) /\ Len(queue[i]) <= MaxQueue
  /\ running \in [inst : Inst \cup {NoInst}, pc : {"idle", "finally", "listener"}]
  /\ lastEvent \in [Inst -> {"none", "probe", "note"}]
  /\ lastNote \in [Inst -> {"none"} \cup Identities]
  /\ unhandled \in BOOLEAN
  /\ issued \in [Inst -> 0..1]
  /\ probeWrites \in [Inst -> 0..1]

\* The application starts at some location; the element of the matching
\* route is mounted and its effect has run.
InitGuards ==
  /\ user \in Identities
  /\ path \in Paths
  /\ \E o \in ProviderIsAuthenticated(user) :
       LET k == RouteGuard(path) IN
       /\ cur = IF k = "none" THEN NoInst ELSE 1
       /\ g = [i \in Inst |-> IF i = 1 /\ k # "none" THEN InitialState(k) ELSE Free]
       /\ probe = [i \in Inst |-> IF i = 1 /\ k # "none" THEN "pending" ELSE "none"]
       /\ probeVal = [i \in Inst |-> IF i = 1 /\ k # "none" THEN o ELSE "none"]
       /\ handlers = IF k = "none" THEN [i \in Inst |-> 0]
                     ELSE Effect(k, [i \in Inst |-> 0], 1)
  /\ queue = [i \in Inst |-> <<>>]
  /\ running = Idle
  /\ lastEvent = [i \in Inst |-> "none"]
  /\ lastNote = [i \in Inst |-> "none"]
  /\ unhandled = FALSE
  /\ issued = [i \in Inst |-> IF i = 1 /\ RouteGuard(path) # "none" THEN 1 ELSE 0]
  /\ probeWrites = [i \in Inst |-> 0]
  /\ chain = <<>>

\* No utility call is in progress.
Init ==
  /\ InitGuards
  /\ ha = HaIdle
  /\ db = DbIdle

\* A slot a new instance can take: its previous instance is gone and has
\* nothing in flight.
Reusable(j) ==
  /\ j # cur
  /\ ~g[j].mounted
  /\ probe[j] # "pending"
  /\ handlers[j] = 0

\* The location becomes p.  The element of a route with another guard
\* replaces the mounted one: the old instance is unmounted (its cleanup
\* runs), the new one is mounted (its effect runs: one probe, one listener).
\* Between two routes with the same guard component the instance is either
\* kept or replaced (fresh).
GoTo(p, fresh) ==
  LET kOld == RouteGuard(path)
      kNew == RouteGuard(p)
      keep == kOld = kNew /\ (kOld = "none" \/ ~fresh)
      h1   == IF cur # NoInst THEN Cleanup(kOld, handlers, cur) ELSE handlers
      q1   == [i \in Inst |-> IF h1[i] = 0 THEN <<>> ELSE queue[i]]
      G1   == IF cur # NoInst THEN [g EXCEPT ![cur] = Released(kOld)] ELSE g
      e1   == IF cur # NoInst THEN [lastEvent EXCEPT ![cur] = "none"] ELSE lastEvent
      n1   == IF cur # NoInst THEN [lastNote EXCEPT ![cur] = "none"] ELSE lastNote
      v1   == IF cur # NoInst /\ probe[cur] = "settled"
                THEN [probeVal EXCEPT ![cur] = "none"] ELSE probeVal
      i1   == IF cur # NoInst THEN [issued EXCEPT ![cur] = 0] ELSE issued
      w1   == IF cur # NoInst THEN [probeWrites EXCEPT ![cur] = 0] ELSE probeWrites
  IN
  /\ running = Idle
  /\ path' = p
  /\ UNCHANGED <<user, running, unhandled, ha, db>>
  /\ IF keep
       THEN UNCHANGED <<cur, g, probe, probeVal, handlers, queue, lastEvent, lastNote,
                        issued, probeWrites>>
     ELSE IF kNew = "none"
       THEN /\ cur' = NoInst
            /\ g' = G1
            /\ handlers' = h1
            /\ queue' = q1
            /\ lastEvent' = e1
            /\ lastNote' = n1
            /\ probeVal' = v1
            /\ issued' = i1
            /\ probeWrites' = w1
            /\ UNCHANGED probe
     ELSE /\ \E j \in Inst : Reusable(j)
          /\ LET j == CHOOSE j \in Inst : Reusable(j) /\ \A m \in Inst : Reusable(m) => j <= m IN
             \E o \in ProviderIsAuthenticated(user) :
               /\ cur' = j
               /\ g' = [G1 EXCEPT ![j] = InitialState(kNew)]
               /\ probe' = [probe EXCEPT ![j] = "pending"]
               /\ probeVal' = [v1 EXCEPT ![j] = o]
               /\ handlers' = Effect(kNew, h1, j)
               /\ queue' = [q1 EXCEPT ![j] = <<>>]
               /\ lastEvent' = [e1 EXCEPT ![j] = "none"]
               /\ lastNote' = [n1 EXCEPT ![j] = "none"]
               /\ issued' = [i1 EXCEPT ![j] = 1]
               /\ probeWrites' = [w1 EXCEPT ![j] = 0]

\* The user follows a link or types a location.  A rendered redirect is
\* followed first: its effect runs before the next user event.
UserNavigate(p, fresh) ==
  /\ p # path
  /\ ~IsRedirect(App(path, cur, g))
  /\ GoTo(p, fresh)
  /\ UNCHANGED chain

\* A rendered <Navigate to=... replace /> changes the location.
FollowRedirect ==
  /\ IsRedirect(App(path, cur, g))
  /\ GoTo(RedirectTarget(App(path, cur, g)), TRUE)
  /\ UNCHANGED chain

\* The user signs in or out: the provider notifies every registered listener.
ProviderChange(u) ==
  /\ running = Idle
  /\ u # user
  /\ \A i \in Inst : handlers[i] > 0 => Len(queue[i]) < MaxQueue
  /\ user' = u
  /\ queue' = [i \in Inst |-> IF handlers[i] > 0 THEN Append(queue[i], u) ELSE queue[i]]
  /\ UNCHANGED <<path, cur, g, probe, probeVal, handlers, running, lastEvent, lastNote, unhandled>>
  /\ UNCHANGED <<issued, probeWrites, chain, ha, db>>

\* The provider notifies one listener of the current identity (the first
\* notification after registration, a token refresh).
ProviderEmit(i) ==
  /\ running = Idle
  /\ handlers[i] > 0
  /\ Len(queue[i]) < MaxQueue
  /\ queue' = [queue EXCEPT ![i] = Append(@, user)]
  /\ UNCHANGED <<user, path, cur, g, probe, probeVal, handlers, running, lastEvent, lastNote, unhandled>>
  /\ UNCHANGED <<issued, probeWrites, chain, ha, db>>

\* The probe's promise settles: checkAuth resumes after its await.
ProbeSettle(i) ==
  /\ running = Idle
  /\ probe[i] = "pending"
  /\ LET r == CheckAuth(g[i], probeVal[i]) IN
       /\ g' = [g EXCEPT ![i] = r.g]
       /\ unhandled' = (unhandled \/ r.threw)
  /\ running' = [inst |-> i, pc |-> "finally"]
  /\ lastEvent' = IF g[i].mounted THEN [lastEvent EXCEPT ![i] = "probe"] ELSE lastEvent
  /\ UNCHANGED <<user, path, cur, probe, probeVal, handlers, queue, lastNote>>
  /\ issued' = [issued EXCEPT ![i] = @ + Rerun(g[i], g'[i])]
  /\ probeWrites' = IF g[i].mounted THEN [probeWrites EXCEPT ![i] = @ + 1] ELSE probeWrites
  /\ UNCHANGED <<chain, ha, db>>

ProbeFinally(i) ==
  /\ running = [inst |-> i, pc |-> "finally"]
  /\ g' = [g EXCEPT ![i] = CheckAuthFinally(g[i])]
  /\ probe' = [probe EXCEPT ![i] = IF g[i].mounted THEN "settled" ELSE "stale"]
  /\ probeVal' = IF g[i].mounted THEN probeVal ELSE [probeVal EXCEPT ![i] = "none"]
  /\ running' = Idle
  /\ UNCHANGED <<user, path, cur, handlers, queue, lastEvent, lastNote, unhandled>>
  /\ issued' = [issued EXCEPT ![i] = @ + Rerun(g[i], g'[i])]
  /\ UNCHANGED <<probeWrites, chain, ha, db>>

\* The provider calls the registered listener with the next notification.
Notify(i) ==
  /\ running = Idle
  /\ handlers[i] > 0
  /\ queue[i] # <<>>
  /\ g' = [g EXCEPT ![i] = Listener(g[i], Head(queue[i]))]
  /\ queue' = [queue EXCEPT ![i] = Tail(@)]
  /\ running' = [inst |-> i, pc |-> "listener"]
  /\ lastEvent' = IF g[i].mounted THEN [lastEvent EXCEPT ![i] = "note"] ELSE lastEvent
  /\ lastNote' = IF g[i].mounted THEN [lastNote EXCEPT ![i] = Head(queue[i])] ELSE lastNote
  /\ UNCHANGED <<user, path, cur, probe, probeVal, handlers, unhandled>>
  /\ issued' = [issued EXCEPT ![i] = @ + Rerun(g[i], g'[i])]
  /\ UNCHANGED <<probeWrites, chain, ha, db>>

NotifyLoading(i) ==
  /\ running = [inst |-> i, pc |-> "listener"]
  /\ g' = [g EXCEPT ![i] = ListenerLoading(g[i])]
  /\ running' = Idle
  /\ UNCHANGED <<user, path, cur, probe, probeVal, handlers, queue, lastEvent, lastNote, unhandled>>
  /\ issued' = [issued EXCEPT ![i] = @ + Rerun(g[i], g'[i])]
  /\ UNCHANGED <<probeWrites, chain, ha, db>>

Next ==
  \/ \E p \in Paths, fresh \in BOOLEAN : UserNavigate(p, fresh)
  \/ FollowRedirect
  \/ \E u \in Identities : ProviderChange(u)
  \/ \E i \in Inst : ProviderEmit(i)
  \/ \E i \in Inst : ProbeSettle(i)
  \/ \E i \in Inst : ProbeFinally(i)
  \/ \E i \in Inst : Notify(i)
  \/ \E i \in Inst : NotifyLoading(i)

Spec == Init /\ [][Next]_vars

\* The event loop runs every settled promise continuation and every handler
\* to its end; a probe in flight settles.  Navigation, identity changes and
\* notifications may or may not happen.
Fairness ==
  \A i \in Inst :
    /\ WF_vars(ProbeSettle(i))
    /\ WF_vars(ProbeFinally(i))
    /\ WF_vars(NotifyLoading(i))

\* One guard that stays mounted: the location only changes between routes
\* with the same guard component, and the instance is kept.
InitActive == Init /\ path \in {"/login", "/"}

StayNavigate(p) ==
  /\ RouteGuard(p) = RouteGuard(path)
  /\ UserNavigate(p, FALSE)

NextActive ==
  \/ \E p \in KnownPaths : StayNavigate(p)
  \/ \E u \in Identities : ProviderChange(u)
  \/ \E i \in Inst : ProviderEmit(i)
  \/ \E i \in Inst : ProbeSettle(i)
  \/ \E i \in Inst : ProbeFinally(i)
  \/ \E i \in Inst : Notify(i)
  \/ \E i \in Inst : NotifyLoading(i)

SpecActive == InitActive /\ [][NextActive]_vars /\ Fairness

\* ------------------------------------------------ redirects, fixed identity
\* The longest recorded chain of redirects.
MaxChain == 3

\* The identity stays fixed and the probe of every newly mounted guard
\* resolves to it.
InitNav == Init /\ \A i \in Inst : probeVal[i] \in {"none", NotNot(user)}

\* A rendered <Navigate to=... replace /> changes the location; the target is
\* recorded in chain.
NavRedirect ==
  /\ Len(chain) < MaxChain
  /\ IsRedirect(App(path, cur, g))
  /\ GoTo(RedirectTarget(App(path, cur, g)), TRUE)
  /\ cur' # NoInst => probeVal'[cur'] = NotNot(user)
  /\ chain' = Append(chain, RedirectTarget(App(path, cur, g)))

NextNav ==
  \/ NavRedirect
  \/ \E i \in Inst : ProviderEmit(i)
  \/ \E i \in Inst : ProbeSettle(i)
  \/ \E i \in Inst : ProbeFinally(i)
  \/ \E i \in Inst : Notify(i)
  \/ \E i \in Inst : NotifyLoading(i)

\* React runs the effect of a rendered <Navigate> when the render is
\* committed, whatever else is going on.
SpecNav == InitNav /\ [][NextNav]_vars /\ Fairness /\ SF_vars(NavRedirect)

\* ------------------------------------------------------------ handleAsync
\* The number of handleAsync calls of a run.
MaxAsync == 3

\* The caller's cells hold anything before the first call.
InitAsync ==
  /\ InitGuards
  /\ path = "/" /\ user = "null" /\ probeVal[1] = "false"
  /\ db = DbIdle
  /\ \E l \in BOOLEAN, e \in {"null"} \cup Errors :
       ha = [HaIdle EXCEPT !.loading = l, !.error = e]

HaCall ==
  /\ ha.pc = "idle"
  /\ Len(ha.done) < MaxAsync
  /\ ha' = HandleAsyncEnter(ha)
  /\ UNCHANGED <<guards, db>>

HaSetLoading ==
  /\ ha.pc = "setLoading"
  /\ ha' = HandleAsyncSetLoading(ha)
  /\ UNCHANGED <<guards, db>>

HaSetError ==
  /\ ha.pc = "setError"
  /\ ha' = HandleAsyncSetError(ha)
  /\ UNCHANGED <<guards, db>>

HaInvoke(o, v) ==
  /\ ha.pc = "asyncFn"
  /\ v \in (IF o = "resolve" THEN Values ELSE Errors)
  /\ ha' = HandleAsyncInvoke(ha, o, v)
  /\ UNCHANGED <<guards, db>>

HaResume ==
  /\ ha.pc = "await"
  /\ ha' = HandleAsyncResume(ha)
  /\ UNCHANGED <<guards, db>>

HaCatch ==
  /\ ha.pc = "catch"
  /\ ha' = HandleAsyncCatch(ha)
  /\ UNCHANGED <<guards, db>>

HaFinally ==
  /\ ha.pc = "finally"
  /\ ha' = HandleAsyncFinally(ha)
  /\ UNCHANGED <<guards, db>>

NextAsync ==
  \/ HaCall
  \/ HaSetLoading
  \/ HaSetError
  \/ \E o \in {"resolve", "reject", "throw"}, v \in Values \cup Errors : HaInvoke(o, v)
  \/ HaResume
  \/ HaCatch
  \/ HaFinally

SpecAsync == InitAsync /\ [][NextAsync]_vars

\* --------------------------------------------------------------- debounce
\* The number of calls of the debounced function in a run.
MaxCalls == 4

InitDebounce ==
  /\ InitGuards
  /\ path = "/" /\ user = "null" /\ probeVal[1] = "false"
  /\ ha = HaIdle
  /\ db = DbIdle

DbMake ==
  /\ ~db.made
  /\ db' = Debounce(db)
  /\ UNCHANGED <<guards, ha>>

\* A call of the returned function.
DbCall(args) ==
  /\ db.made
  /\ Len(db.calls) < MaxCalls
  /\ db' = ExecutedFunction(db, args)
  /\ UNCHANGED <<guards, ha>>

\* wait milliseconds have passed since a pending timer was set.
DbFire ==
  /\ \E t \in db.timers : db' = Later(db, t)
  /\ UNCHANGED <<guards, ha>>

NextDebounce ==
  \/ DbMake
  \/ \E args \in Args : DbCall(args)
  \/ DbFire

SpecDebounce == InitDebounce /\ [][NextDebounce]_vars

\* ------------------------------------------------------ paired runs
\* Two runs of one guard side by side, for the comparison of a rejected
\* probe with a probe that resolves to false: instance 1 is the guard of the
\* run whose probe rejects, instance 2 the guard of the run whose probe
\* resolves to false.  Both are mounted at the same location and every
\* event reaches both at the same point.
Pair == {1, 2}

PairOutcome(i) == IF i = 1 THEN "reject" ELSE "false"

PairMounted(k) ==
  /\ g = [i \in Inst |-> IF i \in Pair THEN InitialState(k) ELSE Free]
  /\ probe = [i \in Inst |-> IF i \in Pair THEN "pending" ELSE "none"]
  /\ probeVal = [i \in Inst |-> IF i \in Pair THEN PairOutcome(i) ELSE "none"]
  /\ handlers = Effect(k, Effect(k, [i \in Inst |-> 0], 1), 2)
  /\ queue = [i \in Inst |-> <<>>]
  /\ lastEvent = [i \in Inst |-> "none"]
  /\ lastNote = [i \in Inst |-> "none"]
  /\ issued = [i \in Inst |-> IF i \in Pair THEN 1 ELSE 0]
  /\ probeWrites = [i \in Inst |-> 0]

InitPair ==
  /\ user \in Identities
  /\ path \in KnownPaths
  /\ cur = 1
  /\ PairMounted(RouteGuard(path))
  /\ running = Idle
  /\ unhandled = FALSE
  /\ chain = <<>>
  /\ ha = HaIdle
  /\ db = DbIdle

\* The provider notifies the listeners of both runs of identity u.
PairEmit(u) ==
  /\ running = Idle
  /\ \A i \in Pair : handlers[i] > 0 /\ Len(queue[i]) < MaxQueue
  /\ user' = u
  /\ queue' = [i \in Inst |-> IF i \in Pair THEN Append(queue[i], u) ELSE queue[i]]
  /\ UNCHANGED <<path, cur, g, probe, probeVal, handlers, running, lastEvent, lastNote, unhandled>>
  /\ UNCHANGED <<issued, probeWrites, chain, ha, db>>

PairProbeSettle ==
  /\ running = Idle
  /\ \A i \in Pair : probe[i] = "pending"
  /\ g' = [i \in Inst |-> IF i \in Pair THEN CheckAuth(g[i], probeVal[i]).g ELSE g[i]]
  /\ unhandled' = (unhandled \/ \E i \in Pair : CheckAuth(g[i], probeVal[i]).threw)
  /\ running' = [inst |-> 1, pc |-> "finally"]
  /\ lastEvent' = [i \in Inst |-> IF i \in Pair THEN "probe" ELSE lastEvent[i]]
  /\ UNCHANGED <<user, path, cur, probe, probeVal, handlers, queue, lastNote>>
  /\ issued' = [i \in Inst |-> IF i \in Pair THEN issued[i] + Rerun(g[i], g'[i]) ELSE issued[i]]
  /\ probeWrites' = [i \in Inst |-> IF i \in Pair THEN probeWrites[i] + 1 ELSE probeWrites[i]]
  /\ UNCHANGED <<chain, ha, db>>

PairProbeFinally ==
  /\ running = [inst |-> 1, pc |-> "finally"]
  /\ g' = [i \in Inst |-> IF i \in Pair THEN CheckAuthFinally(g[i]) ELSE g[i]]
  /\ probe' = [i \in Inst |-> IF i \in Pair THEN "settled" ELSE probe[i]]
  /\ running' = Idle
  /\ UNCHANGED <<user, path, cur, probeVal, handlers, queue, lastEvent, lastNote, unhandled>>
  /\ issued' = [i \in Inst |-> IF i \in Pair THEN issued[i] + Rerun(g[i], g'[i]) ELSE issued[i]]
  /\ UNCHANGED <<probeWrites, chain, ha, db>>

PairNotify ==
  /\ running = Idle
  /\ \A i \in Pair : handlers[i] > 0 /\ queue[i] # <<>>
  /\ g' = [i \in Inst |-> IF i \in Pair THEN Listener(g[i], Head(queue[i])) ELSE g[i]]
  /\ queue' = [i \in Inst |-> IF i \in Pair THEN Tail(queue[i]) ELSE queue[i]]
  /\ running' = [inst |-> 1, pc |-> "listener"]
  /\ lastEvent' = [i \in Inst |-> IF i \in Pair THEN "note" ELSE lastEvent[i]]
  /\ lastNote' = [i \in Inst |-> IF i \in Pair THEN Head(queue[i]) ELSE lastNote[i]]
  /\ UNCHANGED <<user, path, cur, probe, probeVal, handlers, unhandled>>
  /\ issued' = [i \in Inst |-> IF i \in Pair THEN issued[i] + Rerun(g[i], g'[i]) ELSE issued[i]]
  /\ UNCHANGED <<probeWrites, chain, ha, db>>

PairNotifyLoading ==
  /\ running = [inst |-> 1, pc |-> "listener"]
  /\ g' = [i \in Inst |-> IF i \in Pair THEN ListenerLoading(g[i]) ELSE g[i]]
  /\ running' = Idle
  /\ UNCHANGED <<user, path, cur, probe, probeVal, handlers, queue, lastEvent, lastNote, unhandled>>
  /\ issued' = [i \in Inst |-> IF i \in Pair THEN issued[i] + Rerun(g[i], g'[i]) ELSE issued[i]]
  /\ UNCHANGED <<probeWrites, chain, ha, db>>

NextPair ==
  \/ \E u \in Identities : PairEmit(u)
  \/ PairProbeSettle
  \/ PairProbeFinally
  \/ PairNotify
  \/ PairNotifyLoading

SpecPair == InitPair /\ [][NextPair]_vars

\* --------------------------------------------------------- properties
\* No handler is between two of its statements.
Quiescent == running = Idle

\* The AuthState the flags of an instance encode.
FlagState(gi) ==
  IF gi.isLoading THEN "Unknown"
  ELSE IF Truthy(gi.isAuthenticated) THEN "Authenticated"
  ELSE "Unauthenticated"

StateOfIdentity(u) == IF u = "null" THEN "Unauthenticated" ELSE "Authenticated"

StateOfProbe(o) == IF o = "true" THEN "Authenticated" ELSE "Unauthenticated"

\* The AuthState given by the observations delivered to instance i: the
\* last one delivered decides.
AuthState(i) ==
  IF lastEvent[i] = "none" THEN "Unknown"
  ELSE IF lastEvent[i] = "probe" THEN StateOfProbe(probeVal[i])
  ELSE StateOfIdentity(lastNote[i])

\* The render policy of section 4.1.
Policy(k, a) ==
  IF a = "Unknown" THEN "pending"
  ELSE IF k = "Protected" THEN (IF a = "Authenticated" THEN "children" ELSE "redirect /login")
  ELSE (IF a = "Authenticated" THEN "redirect /" ELSE "children")

\* C1: while neither the probe result nor a notification has been applied to
\* a mounted guard (AuthState Unknown), the guard renders the pending
\* indicator: not its children and not a redirect.
C1_UnknownRendersPending ==
  \A i \in Inst :
    (g[i].mounted /\ lastEvent[i] = "none") => Output(g[i]) = "pending"

\* A mounted guard with the probe pending and a notification in flight,
\* nothing applied yet, while the provider already has a signed-in user.
C1_Witness ==
  \E i \in Inst :
    /\ g[i].mounted /\ lastEvent[i] = "none"
    /\ probe[i] = "pending" /\ queue[i] # <<>> /\ user = "u1"
    /\ Output(g[i]) = "pending"

\* C2 as claimed: as long as the probe of a mounted guard has not settled
\* the guard renders the pending indicator, whatever notifications have
\* been delivered.
C2_Original ==
  \A i \in Inst :
    (Quiescent /\ g[i].mounted /\ probe[i] = "pending") => Output(g[i]) = "pending"

\* C2 amended: as long as the probe of a mounted guard has not settled, the
\* guard renders the pending indicator if no notification has been delivered
\* to it, and otherwise what the policy gives for the identity of the last
\* delivered notification.
C2_PendingUntilObservation ==
  \A i \in Inst :
    (Quiescent /\ g[i].mounted /\ probe[i] = "pending") =>
       /\ lastNote[i] = "none" => Output(g[i]) = "pending"
       /\ lastNote[i] # "none" =>
            Output(g[i]) = Policy(g[i].kind, StateOfIdentity(lastNote[i]))

C2_Witness ==
  \E i \in Inst :
    /\ Quiescent /\ g[i].mounted /\ probe[i] = "pending"
    /\ lastNote[i] = "u1" /\ g[i].kind = "Public"
    /\ Output(g[i]) = "redirect /"

\* C3: a mounted ProtectedRoute whose AuthState is Authenticated renders its
\* children, and one whose AuthState is Unauthenticated renders the redirect
\* to /login (so never its children).
C3_ProtectedPolicy ==
  \A i \in Inst :
    (Quiescent /\ g[i].mounted /\ g[i].kind = "Protected") =>
       /\ AuthState(i) = "Authenticated" => ProtectedRoute(g[i]) = "children"
       /\ AuthState(i) = "Unauthenticated" => ProtectedRoute(g[i]) = "redirect /login"

C3_Witness ==
  \E i \in Inst :
    /\ Quiescent /\ g[i].mounted /\ g[i].kind = "Protected"
    /\ AuthState(i) = "Authenticated" /\ lastEvent[i] = "note"
    /\ ProtectedRoute(g[i]) = "children"

\* C4: a mounted PublicRoute whose AuthState is Unauthenticated renders its
\* children, and one whose AuthState is Authenticated renders the redirect
\* to / (so never the login page).
C4_PublicPolicy ==
  \A i \in Inst :
    (Quiescent /\ g[i].mounted /\ g[i].kind = "Public") =>
       /\ AuthState(i) = "Unauthenticated" => PublicRoute(g[i]) = "children"
       /\ AuthState(i) = "Authenticated" => PublicRoute(g[i]) = "redirect /"

C4_Witness ==
  \E i \in Inst :
    /\ Quiescent /\ g[i].mounted /\ g[i].kind = "Public"
    /\ AuthState(i) = "Authenticated" /\ lastEvent[i] = "probe"
    /\ PublicRoute(g[i]) = "redirect /"

\* C5: no probe rejection escapes checkAuth, and a mounted guard whose last
\* observation is a rejected probe is Unauthenticated with the loading flag
\* cleared; a ProtectedRoute then renders the redirect to /login.
C5_RejectIsUnauthenticated ==
  /\ ~unhandled
  /\ \A i \in Inst :
       (Quiescent /\ g[i].mounted /\ lastEvent[i] = "probe" /\ probeVal[i] = "reject") =>
          /\ FlagState(g[i]) = "Unauthenticated"
          /\ g[i].isAuthenticated = "false"
          /\ g[i].kind = "Protected" => Output(g[i]) = "redirect /login"

\* The rejection arrives after a notification had made the guard Authenticated.
C5_Witness ==
  \E i \in Inst :
    /\ Quiescent /\ g[i].mounted /\ g[i].kind = "Protected"
    /\ lastEvent[i] = "probe" /\ probeVal[i] = "reject" /\ lastNote[i] = "u1"
    /\ Output(g[i]) = "redirect /login"

\* C6: in the paired runs (SpecPair) the guard whose probe rejected and the
\* guard whose probe resolved to false are in the same AuthState and render
\* the same output in every state, so their sequences of AuthState values
\* and outputs are the same.
C6_RejectLikeFalse ==
  /\ FlagState(g[1]) = FlagState(g[2])
  /\ Output(g[1]) = Output(g[2])

\* Both probes have settled after a notification had made both guards
\* Authenticated.
C6_Witness ==
  /\ probe[1] = "settled" /\ probeVal[1] = "reject"
  /\ probe[2] = "settled" /\ probeVal[2] = "false"
  /\ lastEvent[1] = "probe" /\ lastNote[1] = "u1" /\ lastNote[2] = "u1"
  /\ Quiescent
  /\ FlagState(g[1]) = "Unauthenticated" /\ FlagState(g[2]) = "Unauthenticated"

\* C7 as claimed: once the probe has completed and the delivered
\* notifications have been handled, the AuthState is the one given by the
\* last notification, in whatever order probe and notifications arrived.
C7_Original ==
  \A i \in Inst :
    (Quiescent /\ g[i].mounted /\ probe[i] = "settled" /\ lastNote[i] # "none") =>
       FlagState(g[i]) = StateOfIdentity(lastNote[i])

\* C7 amended: the last observation delivered wins.  The AuthState of a
\* mounted guard is the one given by the last notification when that was
\* delivered after the probe completed (or the probe is still pending), and
\* the one given by the probe (Unauthenticated on rejection) when the probe
\* completed after the last notification.
C7_LastWriteWins ==
  \A i \in Inst :
    (Quiescent /\ g[i].mounted) => FlagState(g[i]) = AuthState(i)

\* The scenario of the specification: the probe resolved Authenticated, then
\* a notification with a null identity was delivered.
C7_Witness ==
  \E i \in Inst :
    /\ Quiescent /\ g[i].mounted /\ probe[i] = "settled" /\ probeVal[i] = "true"
    /\ lastEvent[i] = "note" /\ lastNote[i] = "null"
    /\ FlagState(g[i]) = "Unauthenticated"

C9_OneSubscription ==
  \A i \in Inst : handlers[i] = IF g[i].mounted THEN 1 ELSE 0

\* One instance was unmounted while its probe was in flight and has no
\* listener left; the instance mounted after it has its own.
C9_Witness ==
  \E i, j \in Inst :
    /\ ~g[i].mounted /\ probe[i] = "pending" /\ handlers[i] = 0
    /\ g[j].mounted /\ handlers[j] = 1

\* C10: at a location that none of the five route paths matches, App renders
\* the redirect to /, no guard is mounted, whatever the provider's identity.
C10_UnknownPathRedirects ==
  path \notin KnownPaths => (App(path, cur, g) = "redirect /" /\ cur = NoInst)

C10_Witness ==
  /\ path \notin KnownPaths /\ user = "u1"
  /\ \E i \in Inst : probe[i] = "pending"
  /\ App(path, cur, g) = "redirect /"

\* The page on screen: the page of the matching route when its guard renders
\* its children.
Rendered == IF App(path, cur, g) = "children" THEN RoutePage(path) ELSE "none"

ProtectedPages == {"Home", "Onboarding", "ManagerDashboard", "SupervisorDashboard"}

\* C11: the guard mounted at a protected path is a ProtectedRoute and the one
\* mounted at /login is a PublicRoute; a protected page is on screen only
\* while the AuthState of the mounted guard is Authenticated, and the login
\* page only while it is Unauthenticated.
C11_RouteTableGuards ==
  /\ path \in ProtectedPaths => (cur # NoInst /\ g[cur].mounted /\ g[cur].kind = "Protected")
  /\ path = "/login" => (cur # NoInst /\ g[cur].mounted /\ g[cur].kind = "Public")
  /\ Rendered \in ProtectedPages => AuthState(cur) = "Authenticated"
  /\ Rendered = "Authentication" => AuthState(cur) = "Unauthenticated"

\* The manager dashboard is on screen, behind a guard that was mounted at
\* another protected path or at this one, after a sign-in notification.
C11_Witness ==
  /\ Quiescent /\ Rendered = "ManagerDashboard"
  /\ lastEvent[cur] = "note" /\ probeVal[cur] = "false"
  /\ AuthState(cur) = "Authenticated"

\* Nothing is in flight for instance i: its probe has settled, every
\* notification emitted to it has been delivered and handled.
AllDelivered(i) ==
  /\ Quiescent
  /\ g[i].mounted
  /\ probe[i] = "settled"
  /\ queue[i] = <<>>

\* C12 as claimed: once every observation in flight has been delivered to a
\* mounted guard, its AuthState is the provider's current identity state,
\* also when the probe result was computed before an identity change and
\* delivered after the notification of that change.  (A rejected probe is
\* left out: it observes no identity.)
C12_Original ==
  \A i \in Inst :
    (AllDelivered(i) /\ probeVal[i] # "reject") =>
       FlagState(g[i]) = StateOfIdentity(user)

\* C12 amended: once every observation in flight has been delivered to a
\* mounted guard, its AuthState is the provider's current identity state
\* if the last observation delivered was a notification; if it was the
\* probe result, the AuthState is the one the probe gives, which is the
\* identity state at the time the probe was issued.
C12_FreshIfNotifiedLast ==
  \A i \in Inst :
    AllDelivered(i) =>
       /\ lastEvent[i] = "note" => FlagState(g[i]) = StateOfIdentity(user)
       /\ lastEvent[i] = "probe" => FlagState(g[i]) = StateOfProbe(probeVal[i])

\* The probe was issued while a user was signed in; the probe result was
\* delivered first and the sign-out notification after it.
C12_Witness ==
  \E i \in Inst :
    /\ AllDelivered(i) /\ probeVal[i] = "true"
    /\ lastEvent[i] = "note" /\ lastNote[i] = "null" /\ user = "null"
    /\ FlagState(g[i]) = "Unauthenticated"

\* C13: the activation of every mounted guard has made exactly one
\* isAuthenticated() call, whatever notifications, renders and state changes
\* it has seen since, and that probe has written the auth flag at most once
\* (exactly once when it has settled).
C13_OneProbePerActivation ==
  \A i \in Inst :
    g[i].mounted =>
       /\ issued[i] = 1
       /\ probeWrites[i] <= 1
       /\ (Quiescent /\ probe[i] = "settled") => probeWrites[i] = 1
       /\ probe[i] \in {"pending", "settled"}

\* A guard whose probe wrote false and which a notification has since
\* switched to Authenticated: its auth flag has been written twice.
C13_Witness ==
  \E i \in Inst :
    /\ Quiescent /\ g[i].mounted /\ probe[i] = "settled" /\ probeVal[i] = "false"
    /\ lastEvent[i] = "note" /\ lastNote[i] = "u1" /\ g[i].isAuthenticated = "true"
    /\ issued[i] = 1 /\ probeWrites[i] = 1

\* C14 (SpecActive: the guard stays mounted, its probe settles): a guard
\* that shows the pending indicator eventually has its loading flag cleared
\* and shows its children or a redirect; no notification is needed for
\* that, and a rejected probe does it too.
C14_LeavesUnknown ==
  \A i \in Inst :
    (g[i].mounted /\ g[i].isLoading) ~>
       (g[i].mounted /\ ~g[i].isLoading /\ Output(g[i]) \in {"children", "redirect /", "redirect /login"})

\* A guard that left Unknown by a rejected probe, no notification delivered.
C14_Witness ==
  \E i \in Inst :
    /\ Quiescent /\ g[i].mounted /\ probe[i] = "settled" /\ probeVal[i] = "reject"
    /\ lastNote[i] = "none" /\ queue[i] = <<>>
    /\ ~g[i].isLoading /\ Output(g[i]) # "pending"

\* C15: a step that mounts an instance leaves it in Unknown (auth flag null,
\* loading flag true) whatever the other instances hold, and a step of the
\* probe continuation or of the listener of one instance leaves every other
\* instance as it is.
C15_OwnState ==
  [][/\ \A i \in Inst :
          (~g[i].mounted /\ g'[i].mounted) =>
             (g'[i].isAuthenticated = "null" /\ g'[i].isLoading /\ FlagState(g'[i]) = "Unknown")
     /\ \A i, j \in Inst :
          (i # j /\ (running.inst = i \/ running'.inst = i)) => g'[j] = g[j]]_vars

\* A guard mounted after another one was Unauthenticated and redirected: the
\* new guard is in Unknown, and the probe of the old one has settled since
\* without touching it.
C15_Witness ==
  \E i, j \in Inst :
    /\ i # j /\ g[i].mounted /\ g[i].kind = "Public" /\ lastEvent[i] = "none"
    /\ FlagState(g[i]) = "Unknown"
    /\ ~g[j].mounted /\ g[j].kind = "Protected" /\ probe[j] = "stale"

\* C16: within one activation the loading flag only changes from true to
\* false: a step from a state where a mounted guard has left Unknown leaves
\* it out of Unknown, so it never shows the pending indicator again.
C16_NeverBackToUnknown ==
  [][\A i \in Inst :
        (g[i].mounted /\ g'[i].mounted /\ ~g[i].isLoading) =>
           (~g'[i].isLoading /\ Output(g'[i]) # "pending")]_vars

\* A guard that left Unknown by a notification and has received the probe
\* result after that.
C16_Witness ==
  \E i \in Inst :
    /\ Quiescent /\ g[i].mounted /\ ~g[i].isLoading
    /\ lastEvent[i] = "probe" /\ lastNote[i] # "none" /\ probe[i] = "settled"
    /\ Output(g[i]) # "pending"

\* C17: in every state, also between the two statements of a handler, a
\* mounted guard whose loading flag is false has a boolean auth flag, and a
\* ProtectedRoute that renders the redirect to /login has the auth flag
\* false, not the initial null.
C17_ResolvedFlagIsBoolean ==
  \A i \in Inst :
    g[i].mounted =>
       /\ ~g[i].isLoading => g[i].isAuthenticated \in {"true", "false"}
       /\ Output(g[i]) = "redirect /login" => g[i].isAuthenticated = "false"

\* Between the two statements of the probe continuation: the auth flag is
\* written, the loading flag is still true.
C17_Witness ==
  \E i \in Inst :
    /\ running = [inst |-> i, pc |-> "finally"]
    /\ g[i].mounted /\ g[i].isLoading /\ g[i].isAuthenticated = "true"
    /\ Output(g[i]) = "pending"

\* The redirects the route table and the two guards can produce.
RedirectChains == {<<>>, <<"/">>, <<"/login">>, <<"/", "/login">>}

\* A page is on screen.
PageShown == Rendered # "none"

\* C18: with a fixed identity that every newly mounted guard resolves to, the
\* chain of redirects has at most two elements, never the same path twice,
\* a redirect to /login only happens for the signed-out identity and a
\* redirect from /login only for a signed-in one, and the run reaches a
\* rendered page and stays on it.
C18_NoRedirectLoop ==
  /\ [](/\ Len(chain) <= 2
        /\ \A a, b \in DOMAIN chain : a # b => chain[a] # chain[b]
        /\ chain \in RedirectChains
        /\ (chain # <<>> /\ chain[Len(chain)] = "/login") => user = "null")
  /\ <>[]PageShown

\* The login page on screen after the two redirects of an unknown path for
\* the signed-out identity.
C18_Witness ==
  /\ chain = <<"/", "/login">>
  /\ user = "null"
  /\ Quiescent /\ PageShown /\ Rendered = "Authentication"

\* The calls handleAsync makes when asyncFn settles as o with v.
ExpectedLog(o, v) ==
  <<Call("setLoading", "true"), Call("setError", "null"), Call("asyncFn", "")>>
  \o (IF o = "throw" THEN <<>> ELSE <<Call("settled", "")>>)
  \o (IF o = "resolve" THEN <<>> ELSE <<Call("setError", v)>>)
  \o <<Call("setLoading", "false")>>

IsPrefix(s, t) == Len(s) <= Len(t) /\ \A k \in 1..Len(s) : s[k] = t[k]

\* C19: handleAsync calls setLoading(true) and setError(null) before asyncFn
\* starts; after asyncFn has settled it calls setLoading(false) exactly once,
\* as its last call; when asyncFn resolves the result is returned and
\* setError is not called again; when it rejects or throws, setError(error)
\* comes before setLoading(false) and the same error is rethrown.
C19_HandleAsyncOrder ==
  /\ ha.outcome = "none" =>
        IsPrefix(ha.log, <<Call("setLoading", "true"), Call("setError", "null")>>)
  /\ ha.outcome # "none" =>
        /\ IsPrefix(ha.log, ExpectedLog(ha.outcome, ha.value))
        /\ ha.pc \in {"await", "catch"} => ha.loading /\ ha.error = "null"
        /\ ha.pc = "idle" =>
             /\ ha.log = ExpectedLog(ha.outcome, ha.value)
             /\ ~ha.loading
             /\ ha.result = [kind  |-> IF ha.outcome = "resolve" THEN "return" ELSE "throw",
                             value |-> ha.value]
             /\ ha.error = IF ha.outcome = "resolve" THEN "null" ELSE ha.value

\* A call whose asyncFn rejected has settled, after an earlier call that
\* returned a result.
C19_Witness ==
  /\ ha.pc = "idle" /\ ha.outcome = "reject"
  /\ ha.result = [kind |-> "throw", value |-> "e2"]
  /\ Len(ha.done) = 2 /\ ha.done[1].kind = "return"

\* C20: at most one timer of the debounced function is pending, and it is
\* the one the closure variable names, with the args of the last call; every
\* burst of calls has led to one invocation of func or has its timer
\* pending; every invocation of func came after the last call of its burst,
\* with the args of that call; and a call never invokes func itself.
C20_Debounce ==
  /\ [](/\ Cardinality(db.timers) <= 1
        /\ \A t \in db.timers :
              t.id = db.timeout /\ t.args = db.calls[Len(db.calls)]
        /\ db.bursts = Len(db.invoked) + Cardinality(db.timers)
        /\ \A k \in DOMAIN db.invoked :
              /\ db.invoked[k].at \in DOMAIN db.calls
              /\ db.invoked[k].args = db.calls[db.invoked[k].at]
              /\ k > 1 => db.invoked[k - 1].at < db.invoked[k].at
        /\ (db.timers = {} /\ db.calls # <<>>) =>
              db.invoked[Len(db.invoked)].at = Len(db.calls))
  /\ [][db'.calls # db.calls => db'.invoked = db.invoked]_vars

\* A burst of three calls has ended in one invocation with the args of the
\* third call, and a later call has its timer pending.
C20_Witness ==
  /\ Len(db.calls) = 4
  /\ db.calls[2] # db.calls[3]
  /\ db.invoked = <<[args |-> db.calls[3], at |-> 3]>>
  /\ Cardinality(db.timers) = 1

====
